---- MODULE Spec2Model ----
(***************************************************************************)
(* Model of the MCP compliance harness (compliance/python): the test       *)
(* server's per-client state store and its tool / resource / prompt        *)
(* handlers (src/server.py), the elicitation exchange of ambiguous_add,    *)
(* the ErrorServer with its timeout tool, the mains of the two binaries,   *)
(* and run_scenario with the scenario executors of the test client         *)
(* (src/client.py).                                                        *)
(***************************************************************************)
EXTENDS Integers, Sequences, FiniteSets, TLC

(***************************************************************************)
(* Input sets                                                              *)
(***************************************************************************)

\* The client identities that connect to one server process (scenario 3
\* has client1 and client2 connected to the same CalcServer).
ClientIds == {"client1", "client2"}

\* --server-name choices that create_calc_server / create_file_server serve.
ServerNames == {"CalcServer", "FileServer"}

\* Values passed to write_special_number (scenario 4 writes 100).
SpecialValues == {-3, 7, 100}

\* Angles passed to cos / sin.
Angles == {0}

\* Paths and contents passed to write_file / delete_file / file_resource.
Paths == {"/readme.txt", "/test/static.txt", "/new.txt"}
Contents == {"Initial readme content", "rewritten"}

\* The handler functions that look up `_current_client_id` on themselves.
StateHandlers ==
    {"cos", "sin", "set_trig_allowed", "write_special_number",
     "special_number_resource", "write_file", "delete_file",
     "file_resource", "summarize_file_prompt"}

Unset == "<unset>"
None == "<None>"

(***************************************************************************)
(* Program constants                                                       *)
(***************************************************************************)

DefaultSpecialNumber == 42
UserDeclinedCode == -32000
UserCancelledCode == -32001
InternalErrorCode == -32603
InvalidParamsCode == -32602

(***************************************************************************)
(* State                                                                   *)
(***************************************************************************)
VARIABLES
    server_name,        \* which server this process runs (main, --server-name)
    client_states,      \* the module-level dict client_states
    current_client_id,  \* handler -> its `_current_client_id` attribute, or Unset
    resp,               \* the response to the most recent call
    own_trig,           \* identity -> argument of its own latest set_trig_allowed
    own_special,        \* identity -> argument of its own latest write_special_number
    toggled             \* the identities that have called set_trig_allowed

storeVars == <<server_name, client_states, current_client_id, resp, own_trig, own_special, toggled>>

(***************************************************************************)
(* Text helpers                                                            *)
(***************************************************************************)

Digit(d) == <<"0", "1", "2", "3", "4", "5", "6", "7", "8", "9">>[d + 1]

RECURSIVE NatToStr(_)
NatToStr(n) == IF n < 10 THEN <<Digit(n)>> ELSE NatToStr(n \div 10) \o <<Digit(n % 10)>>

\* Python str(int): the decimal digits, with a leading "-" for negatives.
IntToStr(n) == IF n < 0 THEN <<"-">> \o NatToStr(-n) ELSE NatToStr(n)

DigitValue(ch) == CHOOSE d \in 0..9 : Digit(d) = ch

RECURSIVE DigitsToNat(_)
DigitsToNat(s) ==
    IF Len(s) = 0 THEN 0
    ELSE 10 * DigitsToNat(SubSeq(s, 1, Len(s) - 1)) + DigitValue(s[Len(s)])

\* Python int(text) on the decimal texts the server produces.
StrToInt(s) == IF s[1] = "-" THEN -DigitsToNat(Tail(s)) ELSE DigitsToNat(s)

(***************************************************************************)
(* The state store                                                         *)
(***************************************************************************)

DefaultState ==
    [trig_allowed |-> FALSE,
     special_number |-> DefaultSpecialNumber,
     files |-> ("/readme.txt" :> "Initial readme content")
               @@ ("/watched.txt" :> "Initial watched content")
               @@ ("/test/static.txt" :> "Static test file content")]

\* Mutant: every reference replaces the record by the default one.
GetClientStateFresh(states, client_id) ==
    [id \in DOMAIN states \cup {client_id} |->
        IF id = client_id THEN DefaultState ELSE states[id]]

\* client_states after get_client_state(client_id): get or create.
GetClientState(states, client_id) ==
    IF client_id \in DOMAIN states THEN states
    ELSE states @@ (client_id :> DefaultState)

\* getattr(handler, '_current_client_id', 'default')
ClientIdOf(handler) ==
    IF current_client_id[handler] = Unset THEN "default"
    ELSE current_client_id[handler]

McpError(code, message) == [kind |-> "error", code |-> code, message |-> message]
Ok(value) == [kind |-> "ok", value |-> value]

\* The response record of a call: who called what, and the outcome.
Response(c, op, arg, outcome) == [caller |-> c, op |-> op, arg |-> arg, out |-> outcome]

\* Python values: a float holding the whole number n, a str given by its
\* parts (the literal and interpolated pieces of an f-string, or its
\* characters), a list of tool names, and None.
Float(n) == [float |-> n]
Text(parts) == [text |-> parts]
ToolNames(names) == [tools |-> names]
NoValue == [none |-> TRUE]

\* math.cos / math.sin on the angles of the input set.
MathCos(x) == CASE x = 0 -> Float(1)
MathSin(x) == CASE x = 0 -> Float(0)

\* The tools each server registers with @server.tool(); FastMCP lists every
\* registered tool to every session.
RegisteredTools(name) ==
    CASE name = "CalcServer" ->
           {"add", "ambiguous_add", "cos", "sin", "set_trig_allowed",
            "write_special_number", "eval_with_sampling"}
      [] name = "FileServer" -> {"write_file", "delete_file"}

(***************************************************************************)
(* CalcServer handlers (synchronous: each runs to completion in one step)  *)
(***************************************************************************)

TrigOutcome(state, value) ==
    IF ~state.trig_allowed
    THEN McpError(InternalErrorCode, <<"Trigonometric functions are disabled">>)
    ELSE Ok(value)

Cos(c, x) ==
    /\ server_name = "CalcServer"
    /\ LET id == ClientIdOf("cos")
           states == GetClientState(client_states, id)
       IN /\ client_states' = states
          /\ resp' = Response(c, "cos", [x |-> x], TrigOutcome(states[id], MathCos(x)))
    /\ UNCHANGED <<server_name, current_client_id, own_trig, own_special, toggled>>

Sin(c, x) ==
    /\ server_name = "CalcServer"
    /\ LET id == ClientIdOf("sin")
           states == GetClientState(client_states, id)
       IN /\ client_states' = states
          /\ resp' = Response(c, "sin", [x |-> x], TrigOutcome(states[id], MathSin(x)))
    /\ UNCHANGED <<server_name, current_client_id, own_trig, own_special, toggled>>

SetTrigAllowed(c, allowed) ==
    /\ server_name = "CalcServer"
    /\ LET id == ClientIdOf("set_trig_allowed")
           states == GetClientState(client_states, id)
       IN /\ client_states' = [states EXCEPT ![id].trig_allowed = allowed]
          /\ resp' = Response(c, "set_trig_allowed", [allowed |-> allowed],
                       Ok(Text(<<"Trigonometric functions ",
                                 IF allowed THEN "enabled" ELSE "disabled">>)))
    /\ own_trig' = [own_trig EXCEPT ![c] = allowed]
    /\ toggled' = toggled \cup {c}
    /\ UNCHANGED <<server_name, current_client_id, own_special>>

WriteSpecialNumber(c, value) ==
    /\ server_name = "CalcServer"
    /\ LET id == ClientIdOf("write_special_number")
           states == GetClientState(client_states, id)
       IN /\ client_states' = [states EXCEPT ![id].special_number = value]
          /\ resp' = Response(c, "write_special_number", [value |-> value],
                       Ok(Text(<<"Special number updated to ">> \o IntToStr(value))))
    /\ own_special' = [own_special EXCEPT ![c] = value]
    /\ UNCHANGED <<server_name, current_client_id, own_trig, toggled>>

SpecialNumberResource(c) ==
    /\ server_name = "CalcServer"
    /\ LET id == ClientIdOf("special_number_resource")
           states == GetClientState(client_states, id)
       IN /\ client_states' = states
          /\ resp' = Response(c, "special_number_resource", <<>>,
                       Ok(Text(IntToStr(states[id].special_number))))
    /\ UNCHANGED <<server_name, current_client_id, own_trig, own_special, toggled>>

\* session.list_tools(): the names of the registered tools.
ListTools(c) ==
    /\ resp' = Response(c, "list_tools", <<>>, Ok(ToolNames(RegisteredTools(server_name))))
    /\ UNCHANGED <<server_name, client_states, current_client_id, own_trig, own_special, toggled>>

(***************************************************************************)
(* FileServer handlers                                                     *)
(***************************************************************************)

\* Mutant: a missing file is reported with the code of a declined elicitation.
FileNotFoundAsDeclined(path) == McpError(UserDeclinedCode, <<"File not found: ", path>>)

FileNotFound(path) == McpError(InvalidParamsCode, <<"File not found: ", path>>)

\* Mutant: the first content written to a path wins.
FilesAfterWriteKeepFirst(files, path, content) ==
    [p \in DOMAIN files \cup {path} |->
        IF p \in DOMAIN files THEN files[p] ELSE content]

\* Mutant: the write leaves the written path as the only entry.
FilesAfterWriteOnly(files, path, content) == (path :> content)

\* state["files"] after `state["files"][path] = content`.
FilesAfterWrite(files, path, content) ==
    [p \in DOMAIN files \cup {path} |-> IF p = path THEN content ELSE files[p]]

WriteFile(c, path, content) ==
    /\ server_name = "FileServer"
    /\ LET id == ClientIdOf("write_file")
           states == GetClientState(client_states, id)
           files == states[id].files
       IN /\ client_states' =
                [states EXCEPT ![id].files = FilesAfterWrite(files, path, content)]
          /\ resp' = Response(c, "write_file", [path |-> path, content |-> content],
                       Ok(Text(<<"File ", path, " written successfully">>)))
    /\ UNCHANGED <<server_name, current_client_id, own_trig, own_special, toggled>>

\* Mutant: the entry is reported deleted but kept.
FilesAfterDeleteKept(files, path) == files

\* state["files"] after `del state["files"][path]`.
FilesAfterDelete(files, path) == [p \in DOMAIN files \ {path} |-> files[p]]

DeleteFileOutcome(files, path) ==
    IF path \in DOMAIN files
    THEN Ok(Text(<<"File ", path, " deleted successfully">>))
    ELSE FileNotFound(path)

\* Mutant: a delete of an absent path puts the file map back to its seeds.
StatesAfterDeleteReseeding(states, id, path) ==
    IF path \in DOMAIN states[id].files
    THEN [states EXCEPT ![id].files = FilesAfterDelete(states[id].files, path)]
    ELSE [states EXCEPT ![id].files = DefaultState.files]

\* client_states after delete_file's body: the entry is deleted when the
\* path is there, and the raise leaves the record as it was.
StatesAfterDelete(states, id, path) ==
    IF path \in DOMAIN states[id].files
    THEN [states EXCEPT ![id].files = FilesAfterDelete(states[id].files, path)]
    ELSE states

DeleteFile(c, path) ==
    /\ server_name = "FileServer"
    /\ LET id == ClientIdOf("delete_file")
           states == GetClientState(client_states, id)
           files == states[id].files
       IN /\ client_states' = StatesAfterDelete(states, id, path)
          /\ resp' = Response(c, "delete_file", [path |-> path], DeleteFileOutcome(files, path))
    /\ UNCHANGED <<server_name, current_client_id, own_trig, own_special, toggled>>

FileResourceOutcome(files, path) ==
    IF path \in DOMAIN files THEN Ok(Text(<<files[path]>>)) ELSE FileNotFound(path)

FileResource(c, path) ==
    /\ server_name = "FileServer"
    /\ LET id == ClientIdOf("file_resource")
           states == GetClientState(client_states, id)
       IN /\ client_states' = states
          /\ resp' = Response(c, "file_resource", [path |-> path],
                       FileResourceOutcome(states[id].files, path))
    /\ UNCHANGED <<server_name, current_client_id, own_trig, own_special, toggled>>

\* Mutant: the static resource is served from the caller's file map.
StaticTestFileOutcomeFromFiles ==
    LET id == ClientIdOf("file_resource")
    IN FileResourceOutcome(GetClientState(client_states, id)[id].files,
                           "/test/static.txt")

\* static_test_file: return "Static test file content"
StaticTestFileOutcome == Ok(Text(<<"Static test file content">>))

\* The resource registered at file:///test/static.txt is read.
StaticTestFile(c) ==
    /\ server_name = "FileServer"
    /\ resp' = Response(c, "static_test_file", <<>>, StaticTestFileOutcome)
    /\ UNCHANGED <<server_name, client_states, current_client_id, own_trig,
                   own_special, toggled>>

SummarizeFilePrompt(c, path) ==
    /\ server_name = "FileServer"
    /\ LET id == ClientIdOf("summarize_file_prompt")
           states == GetClientState(client_states, id)
           files == states[id].files
       IN /\ client_states' = states
          /\ resp' = Response(c, "summarize_file", [path |-> path],
                       Ok(Text(IF path \in DOMAIN files
                               THEN <<"Please summarize the following file content from ",
                                      path, ":\n\n", files[path]>>
                               ELSE <<"File not found: ", path>>)))
    /\ UNCHANGED <<server_name, current_client_id, own_trig, own_special, toggled>>

(***************************************************************************)
(* The server process: any identity may issue any call at any time         *)
(***************************************************************************)

InitStore ==
    /\ server_name \in ServerNames
    /\ client_states = <<>>
    /\ current_client_id = [h \in StateHandlers |-> Unset]
    /\ resp = Response(None, "none", <<>>, Ok(NoValue))
    /\ own_trig = [c \in ClientIds |-> FALSE]
    /\ own_special = [c \in ClientIds |-> DefaultSpecialNumber]
    /\ toggled = {}

NextStore ==
    \E c \in ClientIds :
        \/ \E x \in Angles : Cos(c, x)
        \/ \E x \in Angles : Sin(c, x)
        \/ \E allowed \in BOOLEAN : SetTrigAllowed(c, allowed)
        \/ \E value \in SpecialValues : WriteSpecialNumber(c, value)
        \/ SpecialNumberResource(c)
        \/ ListTools(c)
        \/ \E path \in Paths, content \in Contents : WriteFile(c, path, content)
        \/ \E path \in Paths : DeleteFile(c, path)
        \/ \E path \in Paths : FileResource(c, path)
        \/ StaticTestFile(c)
        \/ \E path \in Paths : SummarizeFilePrompt(c, path)

(***************************************************************************)
(* Text as character sequences, where the code searches it                 *)
(***************************************************************************)

UpperLetters ==
    <<"A","B","C","D","E","F","G","H","I","J","K","L","M","N","O","P","Q",
      "R","S","T","U","V","W","X","Y","Z">>
LowerLetters ==
    <<"a","b","c","d","e","f","g","h","i","j","k","l","m","n","o","p","q",
      "r","s","t","u","v","w","x","y","z">>

LowerChar(ch) ==
    IF \E i \in 1..26 : UpperLetters[i] = ch
    THEN LowerLetters[CHOOSE i \in 1..26 : UpperLetters[i] = ch]
    ELSE ch

\* Python str.lower()
Lower(s) == [i \in 1..Len(s) |-> LowerChar(s[i])]

\* Python `t in s` for strings
Contains(s, t) ==
    \E i \in 1..(Len(s) - Len(t) + 1) : SubSeq(s, i, i + Len(t) - 1) = t

ElicitPromptHead ==
    <<"P","l","e","a","s","e"," ","p","r","o","v","i","d","e"," ","t","h",
      "e"," ","s","e","c","o","n","d"," ","n","u","m","b","e","r"," ","(",
      "b",")"," ","t","o"," ","a","d","d"," ","t","o"," ">>

\* f"Please provide the second number (b) to add to {a}:"
ElicitPrompt(a) == ElicitPromptHead \o IntToStr(a) \o <<":">>

DeclinedMessage ==
    <<"U","s","e","r"," ","d","e","c","l","i","n","e","d"," ","t","o"," ",
      "p","r","o","v","i","d","e"," ","i","n","p","u","t"," ","f","o","r",
      " ","p","a","r","a","m","e","t","e","r"," ","b">>

CancelledMessage ==
    <<"U","s","e","r"," ","c","a","n","c","e","l","l","e","d"," ","t","h",
      "e"," ","e","l","i","c","i","t","a","t","i","o","n"," ","r","e","q",
      "u","e","s","t">>

(***************************************************************************)
(* Elicitation: ambiguous_add and the client's responders                  *)
(***************************************************************************)

\* Number of ambiguous_add calls followed, and the largest small operand.
NumCalls == 2
MaxA == 1

\* Operands a of ambiguous_add (scenarios 2 and 24 pass 10).
ElicitAs == 0..MaxA \cup {10}

\* Values of b a responder outside this repository may supply.
ElicitBs == {-7, 20}

\* The elicitation_callback a session was created with (run_scenario).
Callbacks ==
    {"elicitation_handler_for_scenario_2", "elicitation_handler_for_scenario_24", None}

VARIABLES
    calls,      \* slot -> the ambiguous_add call: pc, arguments, session callback, out
    exchanges   \* slot -> the call's ElicitationExchange

elicitVars == <<calls, exchanges>>

\* types.ElicitResult(action=..., content=...); no content is <<>>.
ElicitResult(action, content) == [action |-> action, content |-> content]

AllElicitResults ==
    {ElicitResult("accept", [b |-> b]) : b \in ElicitBs}
        \cup {ElicitResult("decline", <<>>), ElicitResult("cancel", <<>>)}

elicitation_handler_for_scenario_2(message) ==
    IF Contains(Lower(message), <<"b">>)
    THEN ElicitResult("accept", [b |-> 20])
    ELSE ElicitResult("decline", <<>>)

elicitation_handler_for_scenario_24(message) == ElicitResult("decline", <<>>)

\* The results the client side may answer an elicitation with.  A session
\* created with elicitation_callback=None, like a client that is not this
\* repository's, answers as the session library decides: any result.
ElicitResultsOf(callback, message) ==
    CASE callback = "elicitation_handler_for_scenario_2" ->
           {elicitation_handler_for_scenario_2(message)}
      [] callback = "elicitation_handler_for_scenario_24" ->
           {elicitation_handler_for_scenario_24(message)}
      [] OTHER -> AllElicitResults

TerminalOf(action) ==
    CASE action = "accept" -> "Accepted"
      [] action = "decline" -> "Declined"
      [] OTHER -> "Cancelled"

TerminalStates == {"Accepted", "Declined", "Cancelled"}

Pending == [kind |-> "pending"]
NoExchange == [state |-> "None", message |-> <<>>, action |-> None, content |-> <<>>]
IdleCall == [pc |-> "idle", arg |-> <<>>, callback |-> None, out |-> Pending]

\* Mutant: a declined elicitation is treated as b = 0.
AmbiguousAddOutcomeLenient(a, action, data) ==
    IF action = "accept" THEN Ok(a + data.b)
    ELSE IF action = "decline" THEN Ok(a)
    ELSE McpError(UserCancelledCode, CancelledMessage)

\* The code after `result = await ctx.elicit(...)`.
AmbiguousAddOutcome(a, action, data) ==
    IF action = "accept" THEN Ok(a + data.b)
    ELSE IF action = "decline" THEN McpError(UserDeclinedCode, DeclinedMessage)
    ELSE McpError(UserCancelledCode, CancelledMessage)

\* ambiguous_add up to its await: the exchange is created and sent.
AmbiguousAddCall(k, a, callback) ==
    /\ server_name = "CalcServer"
    /\ calls[k].pc = "idle"
    /\ calls' = [calls EXCEPT ![k] =
                    [pc |-> "suspended", arg |-> [a |-> a],
                     callback |-> callback, out |-> Pending]]
    /\ exchanges' = [exchanges EXCEPT ![k] =
                    [state |-> "AwaitingResponse", message |-> ElicitPrompt(a),
                     action |-> None, content |-> <<>>]]

\* The client side resolves the exchange.
ElicitRespond(k) ==
    /\ exchanges[k].state = "AwaitingResponse"
    /\ \E r \in ElicitResultsOf(calls[k].callback, exchanges[k].message) :
          exchanges' = [exchanges EXCEPT ![k] =
                          [@ EXCEPT !.state = TerminalOf(r.action),
                                    !.action = r.action, !.content = r.content]]
    /\ UNCHANGED calls

\* Mutant: the handler does not wait for the exchange to be resolved.
ElicitAwaitedNot(k) == exchanges[k].state # "None"

\* `await ctx.elicit(...)` returns once the exchange is resolved.
ElicitAwaited(k) == exchanges[k].state \in TerminalStates

\* ambiguous_add from its await to its return or raise.
AmbiguousAddResume(k) ==
    /\ calls[k].pc = "suspended"
    /\ ElicitAwaited(k)
    /\ calls' = [calls EXCEPT ![k] =
                    [@ EXCEPT !.pc = "done",
                              !.out = AmbiguousAddOutcome(calls[k].arg.a,
                                         exchanges[k].action, exchanges[k].content)]]
    /\ UNCHANGED exchanges

InitElicit ==
    /\ calls = [k \in 1..NumCalls |-> IdleCall]
    /\ exchanges = [k \in 1..NumCalls |-> NoExchange]

NextElicit ==
    \E k \in 1..NumCalls :
        \/ \E a \in ElicitAs, cb \in Callbacks : AmbiguousAddCall(k, a, cb)
        \/ ElicitRespond(k)
        \/ AmbiguousAddResume(k)

(***************************************************************************)
(* Scenario 25: three concurrent add calls gathered by the client          *)
(***************************************************************************)

\* tasks = [call_tool("add", {1,2}), call_tool("add", {3,4}), call_tool("add", {5,6})]
AddCalls == <<[a |-> 1, b |-> 2], [a |-> 3, b |-> 4], [a |-> 5, b |-> 6]>>
ExpectedResults == <<3, 7, 11>>
NumTasks == Len(AddCalls)

VARIABLES
    tasks,             \* position -> the call_tool task: pc, request id, result text
    next_request_id,   \* the session's request id counter
    server_requests,   \* requests the server holds: received, or handled and unanswered
    response_stream,   \* responses written by the server, in the order written
    served,            \* request ids in the order the server completed them
    scenario_25        \* "running", or the executor's verdict

gatherVars == <<tasks, next_request_id, server_requests, response_stream, served, scenario_25>>

\* Server tool add(a, b)
Add(a, b) == a + b

\* A call_tool task starts: its request gets the next id and goes out.
\* gather() wraps the coroutines in tasks in argument order.
IssueCall(i) ==
    /\ server_name = "CalcServer"
    /\ scenario_25 = "running"
    /\ tasks[i].pc = "created"
    /\ \A j \in 1..(i - 1) : tasks[j].pc # "created"
    /\ tasks' = [tasks EXCEPT ![i] = [@ EXCEPT !.pc = "waiting", !.id = next_request_id]]
    /\ next_request_id' = next_request_id + 1
    /\ server_requests' = server_requests \cup
          {[id |-> next_request_id, arg |-> AddCalls[i], handled |-> FALSE, text |-> <<>>]}
    /\ UNCHANGED <<response_stream, served, scenario_25>>

\* The server runs the add handler for one of the requests it holds.
ServerAdd(r) ==
    /\ r \in server_requests
    /\ ~r.handled
    /\ server_requests' = (server_requests \ {r}) \cup
          {[r EXCEPT !.handled = TRUE, !.text = IntToStr(Add(r.arg.a, r.arg.b))]}
    /\ served' = Append(served, r.id)
    /\ UNCHANGED <<tasks, next_request_id, response_stream, scenario_25>>

\* The server writes the response of a handled request, tagged with its id.
ServerRespond(r) ==
    /\ r \in server_requests
    /\ r.handled
    /\ server_requests' = server_requests \ {r}
    /\ response_stream' = Append(response_stream, [id |-> r.id, text |-> r.text])
    /\ UNCHANGED <<tasks, next_request_id, served, scenario_25>>

\* The session hands the next response to the task whose request id it
\* carries.  The three tasks were all started before the executor first
\* yielded to the event loop in `await asyncio.gather(*tasks)`.
DeliverResponse ==
    /\ response_stream # <<>>
    /\ \A j \in 1..NumTasks : tasks[j].pc # "created"
    /\ LET r == Head(response_stream)
           i == CHOOSE j \in 1..NumTasks : tasks[j].pc = "waiting" /\ tasks[j].id = r.id
       IN tasks' = [tasks EXCEPT ![i] = [@ EXCEPT !.pc = "done", !.text = r.text]]
    /\ response_stream' = Tail(response_stream)
    /\ UNCHANGED <<next_request_id, server_requests, served, scenario_25>>

\* Mutant: results collected in the order the server completed the calls.
GatherResultsAsCompleted ==
    [i \in 1..NumTasks |->
        StrToInt(tasks[CHOOSE j \in 1..NumTasks : tasks[j].id = served[i]].text)]

\* results = await asyncio.gather(*tasks), each parsed with int(content.text):
\* the list follows the order of the arguments.
GatherResults == [i \in 1..NumTasks |-> StrToInt(tasks[i].text)]

\* gather returns once every task is done; the executor compares each
\* value with expected_results[i].
FinishScenario25 ==
    /\ scenario_25 = "running"
    /\ \A i \in 1..NumTasks : tasks[i].pc = "done"
    /\ scenario_25' =
          IF \A i \in 1..NumTasks : GatherResults[i] = ExpectedResults[i]
          THEN "passed" ELSE "failed"
    /\ UNCHANGED <<tasks, next_request_id, server_requests, response_stream, served>>

InitGather ==
    /\ tasks = [i \in 1..NumTasks |-> [pc |-> "created", id |-> -1, text |-> <<>>]]
    /\ next_request_id = 0
    /\ server_requests = {}
    /\ response_stream = <<>>
    /\ served = <<>>
    /\ scenario_25 = "running"

NextGather ==
    \/ \E i \in 1..NumTasks : IssueCall(i)
    \/ \E r \in server_requests : ServerAdd(r)
    \/ \E r \in server_requests : ServerRespond(r)
    \/ DeliverResponse
    \/ FinishScenario25

(***************************************************************************)
(* eval_with_sampling and its progress events                              *)
(***************************************************************************)

\* Number of eval_with_sampling calls followed.
NumEvalCalls == 2

\* Expressions passed to eval_with_sampling: the two the handler knows, one
\* that Python's eval computes and one on which it raises.
Expressions == {"2 + 2 * 3", "(2 + 3) * (4 + 5)", "1 + 1", "1 / 0"}

VARIABLES
    eval_calls,       \* slot -> the eval_with_sampling call: pc, expression, out
    progress_events   \* the progress events emitted, in order

evalVars == <<eval_calls, progress_events>>

IdleEval == [pc |-> "idle", expression |-> "", out |-> Pending]

\* float(eval(expression)) on the expressions of the input set that reach it.
PyEval(expression) ==
    CASE expression = "1 + 1" -> Ok(Float(2))
      [] OTHER -> [kind |-> "raise"]

\* The handler's evaluation: the two known expressions, else eval, else
\* McpError "Cannot evaluate expression".
Evaluate(expression) ==
    IF expression = "2 + 2 * 3" THEN Ok(Float(8))
    ELSE IF expression = "(2 + 3) * (4 + 5)" THEN Ok(Float(45))
    ELSE IF PyEval(expression).kind = "raise"
         THEN McpError(InternalErrorCode, <<"Cannot evaluate expression: ", expression>>)
         ELSE PyEval(expression)

\* Mutant: only the first progress report of a call is emitted.
ReportProgressOnce(events, k, progress, total, message) ==
    IF progress = 0
    THEN Append(events, [call |-> k, progress |-> progress, total |-> total,
                         message |-> message])
    ELSE events

\* ctx.report_progress(progress, total, message)
ReportProgress(events, k, progress, total, message) ==
    Append(events, [call |-> k, progress |-> progress, total |-> total,
                    message |-> message])

\* eval_with_sampling up to its first await: the 0% event.
EvalStart(k, expression) ==
    /\ server_name = "CalcServer"
    /\ eval_calls[k].pc = "idle"
    /\ progress_events' = ReportProgress(progress_events, k, 0, 100, "Starting evaluation")
    /\ eval_calls' = [eval_calls EXCEPT ![k] =
                        [pc |-> "started", expression |-> expression, out |-> Pending]]

\* Mutant: the 100% event is emitted whatever the evaluation gave.
EventsAfterEvaluationAlways(events, k, result) ==
    ReportProgress(events, k, 100, 100, "Evaluation complete")

\* The progress events after the evaluation: the raise leaves the handler
\* before the second report_progress, a value reaches it.
EventsAfterEvaluation(events, k, result) ==
    IF result.kind = "error" THEN events
    ELSE ReportProgress(events, k, 100, 100, "Evaluation complete")

\* From the first await to the second: the evaluation, then either the
\* raise or the 100% event.
EvalCompute(k) ==
    /\ eval_calls[k].pc = "started"
    /\ LET result == Evaluate(eval_calls[k].expression)
       IN /\ eval_calls' =
               IF result.kind = "error"
               THEN [eval_calls EXCEPT ![k] =
                        [@ EXCEPT !.pc = "done", !.out = result]]
               ELSE [eval_calls EXCEPT ![k] = [@ EXCEPT !.pc = "evaluated"]]
          /\ progress_events' =
               EventsAfterEvaluation(progress_events, k, result)

\* After the second await: return result.
EvalReturn(k) ==
    /\ eval_calls[k].pc = "evaluated"
    /\ eval_calls' = [eval_calls EXCEPT ![k] =
                        [@ EXCEPT !.pc = "done",
                                  !.out = Evaluate(eval_calls[k].expression)]]
    /\ UNCHANGED progress_events

InitEval ==
    /\ eval_calls = [k \in 1..NumEvalCalls |-> IdleEval]
    /\ progress_events = <<>>

NextEval ==
    \E k \in 1..NumEvalCalls :
        \/ \E expression \in Expressions : EvalStart(k, expression)
        \/ EvalCompute(k)
        \/ EvalReturn(k)

(***************************************************************************)
(* The test client: main and run_scenario (client.py)                      *)
(***************************************************************************)

\* --scenario-id values: the scenarios with an executor, one catalog
\* scenario without an executor (7) and one id outside the catalog (999,
\* the id test_client_invalid_scenario passes).
ScenarioArgs == {1, 2, 3, 4, 5, 6, 7, 24, 25, 999}

\* The ids of scenarios_data["scenarios"].
CatalogIds == {1, 2, 3, 4, 5, 6, 7, 24, 25}

\* The scenario ids run_scenario dispatches to an executor.
ImplementedIds == {1, 2, 3, 4, 5, 6, 24, 25}

\* --id values.
ClientIdArgs == ClientIds \cup {"client3"}

\* The catalogs the client is run with: the one the executors' docstrings
\* describe, and one whose scenario 3 declares a third participant.
Catalogs == {"documented", "extended"}

\* scenario["client_ids"] in a catalog: scenario 3 declares client1 and
\* client2 (and client3 in the extended catalog), every other scenario
\* client1.
CatalogClientIds(catalog, scenario_id) ==
    IF scenario_id = 3
    THEN IF catalog = "extended" THEN {"client1", "client2", "client3"}
         ELSE {"client1", "client2"}
    ELSE {"client1"}

\* What load_scenarios_data finds: a catalog, no file, a file that is not
\* JSON, or JSON without the key main reads.
DataStates == {"ok", "missing", "invalid_json", "no_key"}

\* The positional server description: transport followed by its arguments.
ServerDescs ==
    { <<"stdio", "test-server">>, <<"stdio">>, <<"sse", "http://localhost">>,
      <<"websocket", "ws://localhost">>, <<>> }

\* How the client was entered: the binary's main, or a caller of
\* run_scenario with an already loaded catalog.
Entries == {"main", "run_scenario"}

\* Prompt messages a server may send in an elicitation request.
ElicitMessages ==
    { ElicitPrompt(0),
      <<"E","n","t","e","r"," ","a"," ","v","a","l","u","e",":">> }

VARIABLES client, client_trace, client_elicit, server_main

clientVars == <<client, client_trace, client_elicit, server_main>>

NoExit == <<>>
ExitCode(code) == <<code>>

\* create_client_connection raises ValueError for an unsupported transport
\* or a transport without its argument.
ConnectionArgsValid(server_desc) ==
    /\ server_desc[1] \in {"stdio", "sse", "streamable-http"}
    /\ Len(server_desc) >= 2

\* scenario["client_ids"] in the catalog the client was started with.
ScenarioClientIds(scenario_id) == CatalogClientIds(client.catalog, scenario_id)

\* Mutant: the participant check lets every client id through.
IsParticipantAlways(scenario_id, client_id) == TRUE

\* client_id is declared by the scenario.
IsParticipant(scenario_id, client_id) ==
    client_id \in ScenarioClientIds(scenario_id)

\* Mutant: scenario 24 gets the accepting responder of scenario 2.
ElicitationCallbackForAll(scenario_id) ==
    IF scenario_id \in {2, 24} THEN "elicitation_handler_for_scenario_2"
    ELSE None

\* The elicitation callback run_scenario chooses for a scenario.
ElicitationCallbackFor(scenario_id) ==
    IF scenario_id = 2 THEN "elicitation_handler_for_scenario_2"
    ELSE IF scenario_id = 24 THEN "elicitation_handler_for_scenario_24"
    ELSE None

\* Mutant: the callback is chosen after the session was initialized.
RsAfterLateBinding(pc) ==
    CASE pc = "rs_connect" -> "rs_session"
      [] pc = "rs_session" -> "rs_initialize"
      [] pc = "rs_initialize" -> "rs_bind"
      [] pc = "rs_bind" -> "rs_execute"

\* The order of the statements of run_scenario once the connection is open.
RsAfter(pc) ==
    CASE pc = "rs_connect" -> "rs_bind"
      [] pc = "rs_bind" -> "rs_session"
      [] pc = "rs_session" -> "rs_initialize"
      [] pc = "rs_initialize" -> "rs_execute"

\* Mutant: in scenario 3 every client id but client1 is treated as client2.
ScenarioStepsElse(scenario_id, client_id) ==
    CASE scenario_id = 1 -> << <<"call_tool:add">> >>
      [] scenario_id = 2 -> << <<"call_tool:ambiguous_add">> >>
      [] scenario_id = 3 ->
            IF client_id = "client1"
            THEN << <<"call_tool:set_trig_allowed">>, <<"list_tools">> >>
            ELSE << <<"list_tools">> >>
      [] scenario_id = 4 ->
            << <<"read_resource:resource://special-number">>,
               <<"call_tool:write_special_number">>,
               <<"read_resource:resource://special-number">> >>
      [] scenario_id = 5 -> << <<"get_prompt:example-maths">> >>
      [] scenario_id = 6 -> << <<"call_tool:eval_with_sampling">> >>
      [] scenario_id = 24 -> << <<"call_tool:ambiguous_add">> >>
      [] scenario_id = 25 ->
            << <<"call_tool:add", "call_tool:add", "call_tool:add">> >>
      [] OTHER -> << >>

\* The requests each executor issues, one tuple per await; an executor
\* stops at the first failed assertion or exception.
ScenarioSteps(scenario_id, client_id) ==
    CASE scenario_id = 1 -> << <<"call_tool:add">> >>
      [] scenario_id = 2 -> << <<"call_tool:ambiguous_add">> >>
      [] scenario_id = 3 ->
            IF client_id = "client1"
            THEN << <<"call_tool:set_trig_allowed">>, <<"list_tools">> >>
            ELSE IF client_id = "client2" THEN << <<"list_tools">> >>
            ELSE << >>
      [] scenario_id = 4 ->
            << <<"read_resource:resource://special-number">>,
               <<"call_tool:write_special_number">>,
               <<"read_resource:resource://special-number">> >>
      [] scenario_id = 5 -> << <<"get_prompt:example-maths">> >>
      [] scenario_id = 6 -> << <<"call_tool:eval_with_sampling">> >>
      [] scenario_id = 24 -> << <<"call_tool:ambiguous_add">> >>
      [] scenario_id = 25 ->
            << <<"call_tool:add", "call_tool:add", "call_tool:add">> >>
      [] OTHER -> << >>

NoElicit == [callback |-> None, message |-> <<>>,
             result |-> ElicitResult("none", <<>>)]

\* What `await session.call_tool("ambiguous_add", {"a": 10})` gives the
\* scenario 24 executor: a result (isError, content texts), a raised
\* McpError (code, message) or another exception.
ToolResult(isError, content) ==
    [kind |-> "result", isError |-> isError, content |-> content,
     code |-> 0, message |-> <<>>]
RaisedMcpError(code, message) ==
    [kind |-> "mcp_error", isError |-> FALSE, content |-> <<>>,
     code |-> code, message |-> message]
RaisedException ==
    [kind |-> "exception", isError |-> FALSE, content |-> <<>>,
     code |-> 0, message |-> <<>>]
NoResponse ==
    [kind |-> "none", isError |-> FALSE, content |-> <<>>,
     code |-> 0, message |-> <<>>]

\* The texts and codes a server under test may answer with.
ResponseTexts == {DeclinedMessage, CancelledMessage, <<"3","0">>}
ResponseCodes ==
    {UserDeclinedCode, UserCancelledCode, InternalErrorCode}

Responses24 ==
    {ToolResult(isError, content) :
        isError \in BOOLEAN,
        content \in {<<>>} \cup {<<text>> : text \in ResponseTexts}}
    \cup {RaisedMcpError(code, message) :
            code \in ResponseCodes,
            message \in {DeclinedMessage, CancelledMessage}}
    \cup {RaisedException}

MessageHasDeclined(text) ==
    Contains(Lower(text), <<"d","e","c","l","i","n","e","d">>)

\* execute_scenario_24: the verdict on what call_tool gave.
ExecuteScenario24(response) ==
    IF response.kind = "result"
    THEN IF response.isError
         THEN IF Len(response.content) > 0
              THEN MessageHasDeclined(response.content[1])
              ELSE TRUE
         ELSE FALSE
    ELSE IF response.kind = "mcp_error"
    THEN \/ response.code = -32000
         \/ MessageHasDeclined(response.message)
    ELSE FALSE

IdleClient ==
    [pc |-> "not_started", entry |-> "main", scenario_id |-> 0,
     client_id |-> None, data |-> "ok", server_desc |-> <<>>,
     callback |-> None, session_callback |-> None, step |-> 0,
     answered |-> FALSE, result |-> "none", exit_code |-> NoExit,
     catalog |-> "documented", response |-> NoResponse]

\* What the named callback returns for a prompt message.
CallbackResult(callback, message) ==
    IF callback = "elicitation_handler_for_scenario_2"
    THEN elicitation_handler_for_scenario_2(message)
    ELSE elicitation_handler_for_scenario_24(message)

\* The binary is started with its arguments, or run_scenario is called.
\* A behaviour follows one run of one of the two binaries.
ClientStart(entry, scenario_id, client_id, data, server_desc, catalog) ==
    /\ client.pc = "not_started"
    /\ server_main.pc = "not_started"
    /\ entry = "run_scenario" => data = "ok"
    /\ client' = [client EXCEPT
            !.pc = IF entry = "main" THEN "main_load" ELSE "rs_lookup",
            !.entry = entry, !.scenario_id = scenario_id,
            !.client_id = client_id, !.data = data,
            !.server_desc = server_desc, !.catalog = catalog]
    /\ UNCHANGED <<client_trace, client_elicit, server_main>>

\* main: load_scenarios_data; FileNotFoundError and JSONDecodeError exit 1.
MainLoad ==
    /\ client.pc = "main_load"
    /\ client' = IF client.data \in {"missing", "invalid_json"}
                 THEN [client EXCEPT !.pc = "exited",
                                     !.exit_code = ExitCode(1)]
                 ELSE [client EXCEPT !.pc = "main_lookup"]
    /\ UNCHANGED <<client_trace, client_elicit, server_main>>

\* main: the scenario lookup; a catalog without "scenarios" raises an
\* uncaught KeyError, which ends the interpreter with status 1.
MainLookup ==
    /\ client.pc = "main_lookup"
    /\ client' = IF \/ client.data = "no_key"
                    \/ client.scenario_id \notin CatalogIds
                 THEN [client EXCEPT !.pc = "exited",
                                     !.exit_code = ExitCode(1)]
                 ELSE [client EXCEPT !.pc = "rs_lookup"]
    /\ UNCHANGED <<client_trace, client_elicit, server_main>>

Returned(c, result) == [c EXCEPT !.pc = "rs_returned", !.result = result]

\* run_scenario: the scenario is looked up in the catalog.
RsLookup ==
    /\ client.pc = "rs_lookup"
    /\ client' = IF client.scenario_id \notin CatalogIds
                 THEN Returned(client, "fail")
                 ELSE [client EXCEPT !.pc = "rs_participant"]
    /\ UNCHANGED <<client_trace, client_elicit, server_main>>

\* run_scenario: the client id must be one of scenario["client_ids"].
RsParticipant ==
    /\ client.pc = "rs_participant"
    /\ client' = IF ~IsParticipant(client.scenario_id, client.client_id)
                 THEN Returned(client, "fail")
                 ELSE [client EXCEPT !.pc = "rs_connect"]
    /\ UNCHANGED <<client_trace, client_elicit, server_main>>

\* run_scenario: server_desc[0] raises IndexError outside the try block
\* when the description is empty; inside it create_client_connection
\* raises ValueError or the transport is opened, which succeeds or fails.
RsConnect ==
    /\ client.pc = "rs_connect"
    /\ \/ /\ client.server_desc = <<>>
          /\ client' = [client EXCEPT !.pc = "rs_raised"]
          /\ UNCHANGED client_trace
       \/ /\ client.server_desc # <<>>
          /\ ~ConnectionArgsValid(client.server_desc)
          /\ client' = Returned(client, "fail")
          /\ UNCHANGED client_trace
       \/ /\ client.server_desc # <<>>
          /\ ConnectionArgsValid(client.server_desc)
          /\ client_trace' = Append(client_trace, "connect")
          /\ \/ client' = [client EXCEPT !.pc = RsAfter("rs_connect")]
             \/ client' = Returned(client, "fail")
    /\ UNCHANGED <<client_elicit, server_main>>

\* run_scenario: the elicitation callback is chosen from the scenario id.
RsBind ==
    /\ client.pc = "rs_bind"
    /\ client' = [client EXCEPT
            !.pc = RsAfter("rs_bind"),
            !.callback = ElicitationCallbackFor(client.scenario_id)]
    /\ client_trace' = Append(client_trace, "choose_callback")
    /\ UNCHANGED <<client_elicit, server_main>>

\* run_scenario: ClientSession(read, write, elicitation_callback=...).
RsSession ==
    /\ client.pc = "rs_session"
    /\ client' = [client EXCEPT !.pc = RsAfter("rs_session"),
                                !.session_callback = client.callback]
    /\ client_trace' = Append(client_trace, "session")
    /\ UNCHANGED <<client_elicit, server_main>>

\* run_scenario: await session.initialize(), which returns or raises.
RsInitialize ==
    /\ client.pc = "rs_initialize"
    /\ client_trace' = Append(client_trace, "initialize")
    /\ \/ client' = [client EXCEPT !.pc = RsAfter("rs_initialize"),
                                   !.step = 1]
       \/ client' = Returned(client, "fail")
    /\ UNCHANGED <<client_elicit, server_main>>

\* run_scenario dispatches on the scenario id; the executor issues the
\* requests of its next await, or passes when none is left.
RsExecute ==
    /\ client.pc = "rs_execute"
    /\ LET steps == ScenarioSteps(client.scenario_id, client.client_id)
       IN  IF client.scenario_id \notin ImplementedIds
           THEN /\ client' = Returned(client, "fail")
                /\ UNCHANGED client_trace
           ELSE IF client.step > Len(steps)
           THEN /\ client' = Returned(client, "pass")
                /\ UNCHANGED client_trace
           ELSE /\ client' = [client EXCEPT !.pc = "rs_awaiting",
                                            !.answered = FALSE]
                /\ client_trace' = client_trace \o steps[client.step]
    /\ UNCHANGED <<client_elicit, server_main>>

\* The server sends an elicitation request while a request of the client
\* is in flight; the session answers it through its registered callback.
ClientElicit(message) ==
    /\ client.pc = "rs_awaiting"
    /\ client.session_callback # None
    /\ ~client.answered
    /\ client_elicit' =
          [callback |-> client.session_callback, message |-> message,
           result |-> CallbackResult(client.session_callback, message)]
    /\ client' = [client EXCEPT !.answered = TRUE]
    /\ UNCHANGED <<client_trace, server_main>>

\* The awaited responses arrive: the executor's assertions hold and it
\* goes on, or an assertion fails or an exception is caught and it fails.
RsOutcome(ok) ==
    /\ client.pc = "rs_awaiting"
    /\ client.scenario_id # 24
    /\ client' = IF ok
                 THEN [client EXCEPT !.pc = "rs_execute",
                                     !.step = client.step + 1]
                 ELSE Returned(client, "fail")
    /\ UNCHANGED <<client_trace, client_elicit, server_main>>

\* The call_tool of scenario 24 ends: the executor judges what it gave.
RsOutcome24(response) ==
    /\ client.pc = "rs_awaiting"
    /\ client.scenario_id = 24
    /\ client' = IF ExecuteScenario24(response)
                 THEN [client EXCEPT !.pc = "rs_execute",
                                     !.step = client.step + 1,
                                     !.response = response]
                 ELSE [Returned(client, "fail") EXCEPT !.response = response]
    /\ UNCHANGED <<client_trace, client_elicit, server_main>>

\* Mutant: the exit status ignores the result.
ExitStatusAlwaysZero(result) == 0

\* sys.exit(0 if success else 1)
ExitStatus(result) == IF result = "pass" THEN 0 ELSE 1

\* main: run_scenario returned, or raised (except Exception: exit 1).
MainExit ==
    /\ client.entry = "main"
    /\ \/ /\ client.pc = "rs_returned"
          /\ client' = [client EXCEPT
                  !.pc = "exited",
                  !.exit_code = ExitCode(ExitStatus(client.result))]
       \/ /\ client.pc = "rs_raised"
          /\ client' = [client EXCEPT !.pc = "exited",
                                      !.exit_code = ExitCode(1)]
    /\ UNCHANGED <<client_trace, client_elicit, server_main>>

RunScenarioPcs ==
    {"rs_lookup", "rs_participant", "rs_connect", "rs_bind", "rs_session",
     "rs_initialize", "rs_execute", "rs_awaiting"}

\* main: KeyboardInterrupt while asyncio.run is executing run_scenario.
MainInterrupt ==
    /\ client.entry = "main"
    /\ client.pc \in RunScenarioPcs
    /\ client' = [client EXCEPT !.pc = "exited", !.exit_code = ExitCode(1)]
    /\ UNCHANGED <<client_trace, client_elicit, server_main>>

(***************************************************************************)
(* The test server's main (server.py)                                      *)
(***************************************************************************)

\* The keys of scenarios_data["servers"]: the servers this binary creates
\* and one it has no constructor for.
CatalogServers == ServerNames \cup {"ErrorServer", "OtherServer"}

\* --server-name values (test_server_invalid_name passes the last one).
ServerNameArgs == CatalogServers \cup {"NonexistentServer"}

\* How server.run ends: it returns, or raises KeyboardInterrupt or another
\* exception.
RunEndings == {"returned", "interrupt", "exception"}

IdleServerMain ==
    [pc |-> "not_started", server_name |-> None, data |-> "ok",
     exit_code |-> NoExit]

ServerExited(s, code) ==
    [s EXCEPT !.pc = "exited", !.exit_code = ExitCode(code)]

ServerStart(name, data) ==
    /\ server_main.pc = "not_started"
    /\ client.pc = "not_started"
    /\ server_main' = [server_main EXCEPT !.pc = "load",
                                          !.server_name = name,
                                          !.data = data]
    /\ UNCHANGED <<client, client_trace, client_elicit>>

\* main: load_scenarios_data; FileNotFoundError and JSONDecodeError exit 1.
ServerLoad ==
    /\ server_main.pc = "load"
    /\ server_main' = IF server_main.data \in {"missing", "invalid_json"}
                      THEN ServerExited(server_main, 1)
                      ELSE [server_main EXCEPT !.pc = "lookup"]
    /\ UNCHANGED <<client, client_trace, client_elicit>>

\* main: args.server_name not in scenarios_data["servers"] exits 1; a
\* catalog without "servers" raises an uncaught KeyError (status 1).
ServerLookup ==
    /\ server_main.pc = "lookup"
    /\ server_main' = IF \/ server_main.data = "no_key"
                         \/ server_main.server_name \notin CatalogServers
                      THEN ServerExited(server_main, 1)
                      ELSE [server_main EXCEPT !.pc = "create"]
    /\ UNCHANGED <<client, client_trace, client_elicit>>

\* main: the constructor is chosen by name; any other name exits 1.
ServerCreate ==
    /\ server_main.pc = "create"
    /\ server_main' = IF server_main.server_name
                            \in ServerNames \cup {"ErrorServer"}
                      THEN [server_main EXCEPT !.pc = "running"]
                      ELSE ServerExited(server_main, 1)
    /\ UNCHANGED <<client, client_trace, client_elicit>>

\* main: server.run ends; KeyboardInterrupt exits 0, any other exception
\* exits 1, and a return ends main with status 0.
ServerStop(ending) ==
    /\ server_main.pc = "running"
    /\ server_main' = ServerExited(server_main,
                                   IF ending = "exception" THEN 1 ELSE 0)
    /\ UNCHANGED <<client, client_trace, client_elicit>>

InitClient ==
    /\ client = IdleClient
    /\ client_trace = <<>>
    /\ client_elicit = NoElicit
    /\ server_main = IdleServerMain

NextClient ==
    \/ \E entry \in Entries, scenario_id \in ScenarioArgs,
          client_id \in ClientIdArgs, data \in DataStates,
          server_desc \in ServerDescs, catalog \in Catalogs :
            ClientStart(entry, scenario_id, client_id, data, server_desc,
                        catalog)
    \/ MainLoad
    \/ MainLookup
    \/ RsLookup
    \/ RsParticipant
    \/ RsConnect
    \/ RsBind
    \/ RsSession
    \/ RsInitialize
    \/ RsExecute
    \/ \E message \in ElicitMessages : ClientElicit(message)
    \/ \E ok \in BOOLEAN : RsOutcome(ok)
    \/ \E response \in Responses24 : RsOutcome24(response)
    \/ MainExit
    \/ MainInterrupt
    \/ \E name \in ServerNameArgs, data \in DataStates :
            ServerStart(name, data)
    \/ ServerLoad
    \/ ServerLookup
    \/ ServerCreate
    \/ \E ending \in RunEndings : ServerStop(ending)

(***************************************************************************)
(* ErrorServer handlers (create_error_server)                              *)
(***************************************************************************)

\* Longest duration passed to timeout.
MaxDuration == 2

Durations == 0..MaxDuration

VARIABLES
    error_resp,       \* the response to the most recent synchronous call
    timeout_call,     \* the timeout call and where its coroutine is suspended
    timeout_events    \* the progress events timeout has emitted

errorVars == <<error_resp, timeout_call, timeout_events>>

\* always_error: raise McpError(-32602, ...)
AlwaysErrorOutcome ==
    McpError(InvalidParamsCode, <<"This tool always fails for testing purposes">>)

\* not_found_resource: raise McpError(-32602, ...)
NotFoundResourceOutcome ==
    McpError(InvalidParamsCode, <<"This resource is designed to always fail">>)

AlwaysError(c) ==
    /\ error_resp' = Response(c, "always_error", <<>>, AlwaysErrorOutcome)
    /\ UNCHANGED <<timeout_call, timeout_events>>

InvalidResponse(c) ==
    /\ error_resp' = Response(c, "invalid_response", <<>>,
                        Ok([unexpected_field |-> "this should not be here",
                            malformed |-> TRUE]))
    /\ UNCHANGED <<timeout_call, timeout_events>>

NotFoundResource(c) ==
    /\ error_resp' = Response(c, "not_found_resource", <<>>,
                        NotFoundResourceOutcome)
    /\ UNCHANGED <<timeout_call, timeout_events>>

\* The timeout coroutine is a task of the event loop: it runs from one
\* await to the next in one step, and a cancellation of the task (the
\* caller aborted, the connection dropped) is delivered at the await where
\* it is suspended, which it leaves by the raised CancelledError as it has
\* no try block.
IdleTimeout ==
    [pc |-> "idle", duration |-> 0, total_steps |-> 0, i |-> 0,
     cancelled_at |-> <<>>, out |-> Pending]

\* Mutant: the loop is one step short.
TotalStepsShort(duration) == duration * 10 - 1

\* total_steps = duration * 10
TotalSteps(duration) == duration * 10

\* f"Step {i+1}/{total_steps}"
StepMessage(i, total_steps) ==
    Text(<<"Step ">> \o IntToStr(i + 1) \o <<"/">> \o IntToStr(total_steps))

\* Mutant: the coroutine goes on after its task was cancelled.
TimeoutResumesRegardless(call) == TRUE

\* The coroutine is resumed normally from its await unless the task was
\* cancelled meanwhile.
TimeoutResumes(call) == call.cancelled_at = <<>>

\* The tool is called: the task is created.
TimeoutStart(duration) ==
    /\ timeout_call.pc = "idle"
    /\ timeout_call' = [timeout_call EXCEPT
            !.pc = "started", !.duration = duration,
            !.total_steps = TotalSteps(duration)]
    /\ UNCHANGED <<error_resp, timeout_events>>

\* The head of the loop: report_progress(i, total_steps, ...) is awaited.
TimeoutStep ==
    /\ timeout_call.pc \in {"started", "await_sleep"}
    /\ TimeoutResumes(timeout_call)
    /\ timeout_call.i < timeout_call.total_steps
    /\ timeout_events' =
          ReportProgress(timeout_events, 1, timeout_call.i,
                         timeout_call.total_steps,
                         StepMessage(timeout_call.i, timeout_call.total_steps))
    /\ timeout_call' = [timeout_call EXCEPT !.pc = "await_report"]
    /\ UNCHANGED error_resp

\* await asyncio.sleep(0.1)
TimeoutSleep ==
    /\ timeout_call.pc = "await_report"
    /\ TimeoutResumes(timeout_call)
    /\ timeout_call' = [timeout_call EXCEPT !.pc = "await_sleep",
                                            !.i = timeout_call.i + 1]
    /\ UNCHANGED <<error_resp, timeout_events>>

\* The loop is over: report_progress(total_steps, total_steps, "Completed").
TimeoutCompleted ==
    /\ timeout_call.pc \in {"started", "await_sleep"}
    /\ TimeoutResumes(timeout_call)
    /\ timeout_call.i >= timeout_call.total_steps
    /\ timeout_events' =
          ReportProgress(timeout_events, 1, timeout_call.total_steps,
                         timeout_call.total_steps, Text(<<"Completed">>))
    /\ timeout_call' = [timeout_call EXCEPT !.pc = "await_completed"]
    /\ UNCHANGED error_resp

\* return f"Completed after {duration} seconds"
TimeoutReturn ==
    /\ timeout_call.pc = "await_completed"
    /\ TimeoutResumes(timeout_call)
    /\ timeout_call' = [timeout_call EXCEPT
            !.pc = "done",
            !.out = Ok(Text(<<"Completed after ">>
                            \o IntToStr(timeout_call.duration)
                            \o <<" seconds">>))]
    /\ UNCHANGED <<error_resp, timeout_events>>

\* The task is cancelled while the coroutine is suspended at an await.
TimeoutCancel ==
    /\ timeout_call.pc \in {"started", "await_report", "await_sleep",
                            "await_completed"}
    /\ timeout_call.cancelled_at = <<>>
    /\ timeout_call' = [timeout_call EXCEPT
            !.cancelled_at = <<Len(timeout_events)>>]
    /\ UNCHANGED <<error_resp, timeout_events>>

\* The steps of the timeout coroutine itself.
TimeoutRun ==
    \/ TimeoutStep
    \/ TimeoutSleep
    \/ TimeoutCompleted
    \/ TimeoutReturn

InitError ==
    /\ error_resp = Response(None, "none", <<>>, Ok(NoValue))
    /\ timeout_call = IdleTimeout
    /\ timeout_events = <<>>

NextError ==
    \/ \E c \in ClientIds :
          \/ AlwaysError(c)
          \/ InvalidResponse(c)
          \/ NotFoundResource(c)
    \/ \E duration \in Durations : TimeoutStart(duration)
    \/ TimeoutStep
    \/ TimeoutSleep
    \/ TimeoutCompleted
    \/ TimeoutReturn
    \/ TimeoutCancel

(***************************************************************************)
(* get_client_state applied to any client id                               *)
(***************************************************************************)

\* The client_id arguments get_client_state is applied to: the key the
\* handlers pass and one other key.
StoreIds == {"default", "client1"}

\* The last use of the store: the key, whether the record was obtained
\* (get_client_state) or assigned into through the returned reference, and
\* the record as the caller then sees it.
VARIABLES store_ref

getVars == <<store_ref>>

NoRef == [client_id |-> None, op |-> "none", record |-> <<>>]

\* state = get_client_state(client_id)
GetOrCreate(client_id) ==
    /\ client_states' = GetClientState(client_states, client_id)
    /\ store_ref' = [client_id |-> client_id, op |-> "get_client_state",
                     record |-> client_states'[client_id]]

\* The records a handler's assignment can leave:
\* state["trig_allowed"] = allowed, state["special_number"] = value,
\* state["files"][path] = content, del state["files"][path].
RecordsAfterAssign(r) ==
    {[r EXCEPT !.trig_allowed = allowed] : allowed \in BOOLEAN}
    \cup {[r EXCEPT !.special_number = value] : value \in SpecialValues}
    \cup {[r EXCEPT !.files =
              [p \in DOMAIN r.files \cup {"/new.txt"} |->
                  IF p = "/new.txt" THEN "rewritten" ELSE r.files[p]]]}
    \cup {[r EXCEPT !.files = FilesAfterDelete(r.files, "/readme.txt")]}

\* A handler assigns into the record it obtained, through the reference
\* get_client_state returned.
AssignThroughRef ==
    /\ store_ref.client_id # None
    /\ \E record \in RecordsAfterAssign(client_states[store_ref.client_id]) :
          /\ client_states' =
                [client_states EXCEPT ![store_ref.client_id] = record]
          /\ store_ref' = [store_ref EXCEPT !.op = "assign", !.record = record]

InitGet == store_ref = NoRef

NextGet ==
    /\ \/ \E client_id \in StoreIds : GetOrCreate(client_id)
       \/ AssignThroughRef
    /\ UNCHANGED <<server_name, current_client_id, resp, own_trig,
                   own_special, toggled>>

(***************************************************************************)
(* Calls of one identity in flight at the same time                        *)
(***************************************************************************)

\* Number of calls the identity has in flight together.
BatchSize == 2

\* The calls of the identity, by server.
ConcurrentCalls(name) ==
    IF name = "CalcServer"
    THEN {[op |-> "set_trig_allowed", arg |-> [allowed |-> TRUE]],
          [op |-> "cos", arg |-> [x |-> 0]],
          [op |-> "write_special_number", arg |-> [value |-> 7]],
          [op |-> "write_special_number", arg |-> [value |-> 100]],
          [op |-> "special_number_resource", arg |-> <<>>]}
    ELSE {[op |-> "write_file", arg |-> [path |-> "/new.txt", content |-> "rewritten"]],
          [op |-> "write_file",
           arg |-> [path |-> "/new.txt", content |-> "Initial readme content"]],
          [op |-> "delete_file", arg |-> [path |-> "/new.txt"]],
          [op |-> "delete_file", arg |-> [path |-> "/readme.txt"]],
          [op |-> "file_resource", arg |-> [path |-> "/new.txt"]]}

VARIABLES
    batch,        \* the calls in flight: op, arg, whether handled, outcome
    batch_start   \* client_states when the calls were issued

concurrentVars == <<batch, batch_start>>

\* What a synchronous handler does to client_states and what it returns,
\* from the store as it finds it.
HandlerEffect(states0, call) ==
    LET id == ClientIdOf(call.op)
        states == GetClientState(states0, id)
        state == states[id]
    IN CASE call.op = "set_trig_allowed" ->
              [states |-> [states EXCEPT ![id].trig_allowed = call.arg.allowed],
               out |-> Ok(Text(<<"Trigonometric functions ",
                                 IF call.arg.allowed THEN "enabled"
                                 ELSE "disabled">>))]
         [] call.op = "cos" ->
              [states |-> states,
               out |-> TrigOutcome(state, MathCos(call.arg.x))]
         [] call.op = "write_special_number" ->
              [states |-> [states EXCEPT ![id].special_number = call.arg.value],
               out |-> Ok(Text(<<"Special number updated to ">>
                               \o IntToStr(call.arg.value)))]
         [] call.op = "special_number_resource" ->
              [states |-> states,
               out |-> Ok(Text(IntToStr(state.special_number)))]
         [] call.op = "write_file" ->
              [states |-> [states EXCEPT ![id].files =
                              FilesAfterWrite(state.files, call.arg.path,
                                              call.arg.content)],
               out |-> Ok(Text(<<"File ", call.arg.path,
                                 " written successfully">>))]
         [] call.op = "delete_file" ->
              [states |-> IF call.arg.path \in DOMAIN state.files
                          THEN [states EXCEPT ![id].files =
                                   FilesAfterDelete(state.files, call.arg.path)]
                          ELSE states,
               out |-> DeleteFileOutcome(state.files, call.arg.path)]
         [] call.op = "file_resource" ->
              [states |-> states,
               out |-> FileResourceOutcome(state.files, call.arg.path)]

\* Mutant: a handler works on the store as it was when the calls were issued.
HandlerViewAtIssue == batch_start

\* The store a handler works on: the handlers are plain `def` functions
\* without an await, so each runs from get_client_state to its return in
\* one step of the event loop, on the store as it is then.
HandlerView == client_states

\* The identity issues its calls without awaiting any of them.
IssueConcurrent(issued) ==
    /\ batch = <<>>
    /\ batch' = [k \in 1..BatchSize |->
                    [op |-> issued[k].op, arg |-> issued[k].arg,
                     done |-> FALSE, out |-> Pending]]
    /\ batch_start' = client_states
    /\ UNCHANGED client_states

\* The server handles one of the calls in flight, in any order.
HandleCall(k) ==
    /\ k \in DOMAIN batch
    /\ ~batch[k].done
    /\ LET eff == HandlerEffect(HandlerView, batch[k])
       IN /\ client_states' = eff.states
          /\ batch' = [batch EXCEPT ![k].done = TRUE, ![k].out = eff.out]
    /\ UNCHANGED batch_start

InitConcurrent ==
    /\ batch = <<>>
    /\ batch_start = <<>>

NextConcurrent ==
    /\ \/ \E issued \in [1..BatchSize -> ConcurrentCalls(server_name)] :
             IssueConcurrent(issued)
       \/ \E k \in 1..BatchSize : HandleCall(k)
    /\ UNCHANGED <<server_name, current_client_id, resp, own_trig,
                   own_special, toggled>>

(***************************************************************************)
(* One identity writing, deleting and reading files                        *)
(***************************************************************************)

\* The identity whose calls are followed.
FilesCaller == "client1"

\* path -> what the identity did last to it: <<>> while it has neither
\* written nor deleted it, <<"written", content>> or <<"deleted">>.
VARIABLES last_write

filesVars == <<last_write>>

FilesWrite(path, content) ==
    /\ WriteFile(FilesCaller, path, content)
    /\ last_write' = [last_write EXCEPT ![path] = <<"written", content>>]

FilesDelete(path) ==
    /\ DeleteFile(FilesCaller, path)
    /\ last_write' = [last_write EXCEPT ![path] = <<"deleted">>]

FilesRead(path) ==
    /\ FileResource(FilesCaller, path)
    /\ UNCHANGED last_write

FilesReadStatic ==
    /\ StaticTestFile(FilesCaller)
    /\ UNCHANGED last_write

InitFiles == last_write = [path \in Paths |-> <<>>]

NextFiles ==
    \/ \E path \in Paths, content \in Contents : FilesWrite(path, content)
    \/ \E path \in Paths : FilesDelete(path)
    \/ \E path \in Paths : FilesRead(path)
    \/ FilesReadStatic

(***************************************************************************)
(* Specifications                                                          *)
(***************************************************************************)

vars == <<storeVars, elicitVars, gatherVars, evalVars, clientVars, errorVars, getVars, concurrentVars, filesVars>>

Init == InitStore /\ InitElicit /\ InitGather /\ InitEval /\ InitClient /\ InitError /\ InitGet /\ InitConcurrent /\ InitFiles

\* The server process serving calls of any identity in any order.
Spec == Init /\ [][NextStore /\ UNCHANGED <<elicitVars, gatherVars, evalVars, clientVars, errorVars, getVars, concurrentVars, filesVars>>]_vars

\* ambiguous_add calls with their elicitation exchanges.
SpecElicit == Init /\ [][NextElicit /\ UNCHANGED <<storeVars, gatherVars, evalVars, clientVars, errorVars, getVars, concurrentVars, filesVars>>]_vars

\* The scenario 25 executor against a CalcServer.
SpecGather == Init /\ [][NextGather /\ UNCHANGED <<storeVars, elicitVars, evalVars, clientVars, errorVars, getVars, concurrentVars, filesVars>>]_vars

\* eval_with_sampling calls interleaved at their awaits.
SpecEval == Init /\ [][NextEval /\ UNCHANGED <<storeVars, elicitVars, gatherVars, clientVars, errorVars, getVars, concurrentVars, filesVars>>]_vars

\* The client binary (main, run_scenario) and the server binary's main.
SpecClient == Init /\ [][NextClient /\ UNCHANGED <<storeVars, elicitVars, gatherVars, evalVars, errorVars, getVars, concurrentVars, filesVars>>]_vars

\* The ErrorServer: its synchronous handlers and one timeout call, whose
\* coroutine the event loop keeps resuming until it ends or is cancelled.
SpecError ==
    /\ Init
    /\ [][NextError /\ UNCHANGED <<storeVars, elicitVars, gatherVars, evalVars, clientVars, getVars, concurrentVars, filesVars>>]_vars
    /\ WF_vars(TimeoutRun /\ UNCHANGED <<storeVars, elicitVars, gatherVars, evalVars, clientVars, getVars, concurrentVars, filesVars>>)

\* get_client_state applied to the keys of StoreIds, and assignments into
\* the records it returned.
SpecGetOrCreate ==
    Init /\ [][NextGet /\ UNCHANGED <<elicitVars, gatherVars, evalVars, clientVars, errorVars, concurrentVars, filesVars>>]_vars

\* One identity with BatchSize calls in flight on a CalcServer or a
\* FileServer.
SpecConcurrent ==
    Init /\ [][NextConcurrent /\ UNCHANGED <<elicitVars, gatherVars, evalVars, clientVars, errorVars, getVars, filesVars>>]_vars

\* A FileServer serving the write_file, delete_file and file:// read calls
\* of one identity.
SpecFiles ==
    Init /\ [][NextFiles /\ UNCHANGED <<elicitVars, gatherVars, evalVars, clientVars, errorVars, getVars, concurrentVars>>]_vars

(***************************************************************************)
(* Claims about the state store                                            *)
(***************************************************************************)

\* The record a handler's get_client_state call resolves to.
StateSeenBy(handler) ==
    GetClientState(client_states, ClientIdOf(handler))[ClientIdOf(handler)]

\* What an identity observes through cos/sin, the special-number resource,
\* the file resource and the summarize_file prompt.
Observed(c) ==
    [cos |-> [x \in Angles |-> TrigOutcome(StateSeenBy("cos"), MathCos(x))],
     sin |-> [x \in Angles |-> TrigOutcome(StateSeenBy("sin"), MathSin(x))],
     special |-> Text(IntToStr(StateSeenBy("special_number_resource").special_number)),
     file |-> [p \in Paths |-> FileResourceOutcome(StateSeenBy("file_resource").files, p)],
     summarize |-> [p \in Paths |->
                      IF p \in DOMAIN StateSeenBy("summarize_file_prompt").files
                      THEN <<StateSeenBy("summarize_file_prompt").files[p]>>
                      ELSE <<>>]]

Mutators == {"set_trig_allowed", "write_special_number", "write_file", "delete_file"}

\* C1: a mutation made by identity c1 never changes what a distinct identity
\* c2 observes through cos/sin, the special-number resource, the file
\* resource or the summarize_file prompt.
C1_Isolation ==
    [][\A c1, c2 \in ClientIds :
          (c1 # c2 /\ resp'.caller = c1 /\ resp'.op \in Mutators)
              => Observed(c2)' = Observed(c2)]_vars

FeatureDisabled == McpError(InternalErrorCode, <<"Trigonometric functions are disabled">>)

\* C2: cos and sin called by an identity return a trig value iff that
\* identity's most recent set_trig_allowed call passed true (false when it
\* never called); otherwise they fail with FeatureDisabled.
C2_TrigGate ==
    resp.op \in {"cos", "sin"} =>
        IF own_trig[resp.caller]
        THEN resp.out = Ok(IF resp.op = "cos" THEN MathCos(resp.arg.x) ELSE MathSin(resp.arg.x))
        ELSE resp.out = FeatureDisabled

\* C3: after identity A calls set_trig_allowed(true), A's tool list holds
\* cos and sin; an identity that never toggled the setting never sees cos
\* or sin in its tool list.
C3_ToolListReflectsTrig ==
    (server_name = "CalcServer" /\ resp.op = "list_tools") =>
        /\ own_trig[resp.caller] => {"cos", "sin"} \subseteq resp.out.value.tools
        /\ resp.caller \notin toggled => {"cos", "sin"} \cap resp.out.value.tools = {}

\* C4: reading the special-number resource returns 42 before any write of
\* the reading identity and afterwards the value of that identity's most
\* recent write_special_number.
C4_ReadAfterWrite ==
    resp.op = "special_number_resource" =>
        /\ resp.out.kind = "ok"
        /\ StrToInt(resp.out.value.text) = own_special[resp.caller]

\* C9: delete_file fails with NotFound when the path is absent from the
\* caller's files and removes the entry when it is present; a read of a
\* path through the file resource fails with NotFound exactly while the
\* path is absent, and an absent path only comes back by write_file of it.
C9_DeleteFile ==
    [][/\ resp'.op = "delete_file" =>
            IF resp'.arg.path \in DOMAIN StateSeenBy("delete_file").files
            THEN /\ resp'.out.kind = "ok"
                 /\ resp'.arg.path \notin DOMAIN StateSeenBy("file_resource").files'
            ELSE resp'.out = FileNotFound(resp'.arg.path)
       /\ resp'.op = "file_resource" =>
            IF resp'.arg.path \in DOMAIN StateSeenBy("file_resource").files'
            THEN resp'.out.kind = "ok"
            ELSE resp'.out = FileNotFound(resp'.arg.path)
       /\ \A p \in Paths :
            (/\ p \notin DOMAIN StateSeenBy("file_resource").files
             /\ p \in DOMAIN StateSeenBy("file_resource").files')
                => (resp'.op = "write_file" /\ resp'.arg.path = p)]_vars

\* C9 witness: a read of the pre-seeded /readme.txt fails after its deletion.
C9_Witness ==
    /\ resp.op = "file_resource"
    /\ resp.arg.path = "/readme.txt"
    /\ resp.out = FileNotFound("/readme.txt")

(***************************************************************************)
(* Claims about elicitation                                                *)
(***************************************************************************)

DeclinedWord == <<"d","e","c","l","i","n","e","d">>

\* C5: ambiguous_add(a) returns a + b on accept with payload b (a + 20 with
\* the b=20 responder of scenario 2); on decline it fails with code -32000
\* and a message containing "declined"; on cancel it fails with a different
\* code; it returns a sum only on accept.
C5_AmbiguousAdd ==
    \A k \in 1..NumCalls :
        calls[k].pc = "done" =>
            LET call == calls[k]
                x == exchanges[k]
            IN /\ x.state = "Accepted" => call.out = Ok(call.arg.a + x.content.b)
               /\ call.callback = "elicitation_handler_for_scenario_2"
                    => call.out = Ok(call.arg.a + 20)
               /\ x.state = "Declined" =>
                    /\ call.out.kind = "error"
                    /\ call.out.code = -32000
                    /\ Contains(Lower(call.out.message), DeclinedWord)
               /\ x.state = "Cancelled" =>
                    /\ call.out.kind = "error"
                    /\ call.out.code # -32000
                    /\ call.out.code = UserCancelledCode
               /\ call.out.kind = "ok" => x.state = "Accepted"

\* C5 witness: one call answered by the scenario 2 responder returned 30
\* and another call finished after its exchange was declined.
C5_Witness ==
    \E k1, k2 \in 1..NumCalls :
        /\ calls[k1].pc = "done"
        /\ calls[k1].callback = "elicitation_handler_for_scenario_2"
        /\ calls[k1].out = Ok(30)
        /\ calls[k2].pc = "done"
        /\ exchanges[k2].state = "Declined"

\* C7: an ambiguous_add call stays suspended while its exchange is
\* AwaitingResponse, has its result or error only once the exchange is
\* Accepted, Declined or Cancelled, and a terminal exchange never changes.
C7_ElicitOrdering ==
    [][\A k \in 1..NumCalls :
          /\ calls'[k].pc = "done" => exchanges'[k].state \in TerminalStates
          /\ exchanges'[k].state = "AwaitingResponse" => calls'[k].pc = "suspended"
          /\ calls'[k].pc = "suspended" => calls'[k].out = Pending
          /\ exchanges[k].state \in TerminalStates => exchanges'[k] = exchanges[k]]_vars

\* C7 witness: one call has finished after a cancelled exchange while
\* another is suspended on an exchange that awaits its response.
C7_Witness ==
    \E k1, k2 \in 1..NumCalls :
        /\ calls[k1].pc = "done"
        /\ exchanges[k1].state = "Cancelled"
        /\ calls[k2].pc = "suspended"
        /\ exchanges[k2].state = "AwaitingResponse"

(***************************************************************************)
(* Claims about concurrent calls                                           *)
(***************************************************************************)

\* C8: the three add calls of scenario 25 are all in flight before any of
\* them completes, and the caller gets [3, 7, 11] in issuance order
\* whatever the order in which the server completed them.
C8_GatherOrder ==
    /\ (\E i \in 1..NumTasks : tasks[i].pc = "done")
          => \A j \in 1..NumTasks : tasks[j].pc # "created"
    /\ (\A i \in 1..NumTasks : tasks[i].pc = "done")
          => GatherResults = <<3, 7, 11>>
    /\ scenario_25 # "running" =>
          /\ scenario_25 = "passed"
          /\ GatherResults = <<3, 7, 11>>

\* C8 witness: the scenario passed although the server completed the calls
\* in the reverse of their issuance order.
C8_Witness ==
    /\ scenario_25 = "passed"
    /\ served = <<tasks[3].id, tasks[2].id, tasks[1].id>>

(***************************************************************************)
(* Claims about eval_with_sampling                                         *)
(***************************************************************************)

\* The progress values a call has emitted, in order.
ProgressOf(k) ==
    LET mine == SelectSeq(progress_events, LAMBDA e : e.call = k)
    IN [i \in 1..Len(mine) |-> <<mine[i].progress, mine[i].total>>]

\* C10: a call of eval_with_sampling has emitted its 0% event before the
\* evaluation and its 100% event after it and before the result is
\* returned; a returned value is 8.0 for "2 + 2 * 3" and 45.0 for
\* "(2 + 3) * (4 + 5)".
C10_EvalProgress ==
    \A k \in 1..NumEvalCalls :
        LET call == eval_calls[k]
        IN /\ call.pc = "started" => (ProgressOf(k) = <<<<0, 100>>>> /\ call.out = Pending)
           /\ call.pc = "evaluated" =>
                 (ProgressOf(k) = <<<<0, 100>>, <<100, 100>>>> /\ call.out = Pending)
           /\ (call.pc = "done" /\ call.out.kind = "ok") =>
                 /\ ProgressOf(k) = <<<<0, 100>>, <<100, 100>>>>
                 /\ call.expression = "2 + 2 * 3" => call.out = Ok(Float(8))
                 /\ call.expression = "(2 + 3) * (4 + 5)" => call.out = Ok(Float(45))
           /\ (call.pc = "done" /\ call.expression \in {"2 + 2 * 3", "(2 + 3) * (4 + 5)"})
                 => call.out.kind = "ok"

\* C10 witness: both known expressions have been evaluated and returned,
\* with the events of the two calls interleaved.
C10_Witness ==
    /\ eval_calls[1].pc = "done" /\ eval_calls[1].out = Ok(Float(8))
    /\ eval_calls[2].pc = "done" /\ eval_calls[2].out = Ok(Float(45))
    /\ Len(progress_events) = 4
    /\ progress_events[2].call # progress_events[1].call

(***************************************************************************)
(* Claims about the test client and the two binaries                       *)
(***************************************************************************)

SetupEvents == {"connect", "choose_callback", "session", "initialize"}

\* Every occurrence of event b in the client's trace has an a before it.
TraceBefore(a, b) ==
    \A j \in 1..Len(client_trace) :
        client_trace[j] = b => \E i \in 1..(j - 1) : client_trace[i] = a

InTrace(e) == \E i \in 1..Len(client_trace) : client_trace[i] = e

\* C11: when the scenario id is not in the catalog, or the client id is
\* not one of the scenario's participants, run_scenario opens no
\* connection, creates no session, issues no request, and what it returns
\* is failure.
C11_FailFast ==
    (/\ client.pc # "not_started"
     /\ \/ client.scenario_id \notin CatalogIds
        \/ client.client_id \notin ScenarioClientIds(client.scenario_id))
    => /\ client_trace = <<>>
       /\ client.session_callback = None
       /\ client.pc \in {"main_load", "main_lookup", "rs_lookup",
                         "rs_participant", "rs_returned", "exited"}
       /\ client.pc = "rs_returned" => client.result = "fail"
       /\ client.result # "pass"

\* C11 witness: run_scenario has returned failure for a client id that
\* the (cataloged) scenario does not declare.
C11_Witness ==
    /\ client.pc = "rs_returned"
    /\ client.result = "fail"
    /\ client.scenario_id \in CatalogIds
    /\ client.client_id \notin ScenarioClientIds(client.scenario_id)

\* C12: in scenarios 2 and 24 the responder is chosen before the session
\* is created, the session is created with that responder, initialize
\* follows the creation of the session, and every request of the executor
\* follows initialize.
C12_ResponderBeforeSession ==
    client.scenario_id \in {2, 24} =>
        /\ TraceBefore("choose_callback", "session")
        /\ TraceBefore("session", "initialize")
        /\ \A j \in 1..Len(client_trace) :
              client_trace[j] \notin SetupEvents =>
                 /\ \E i \in 1..(j - 1) : client_trace[i] = "initialize"
                 /\ \E i \in 1..(j - 1) : client_trace[i] = "choose_callback"
        /\ InTrace("session") =>
              client.session_callback =
                 (IF client.scenario_id = 2
                  THEN "elicitation_handler_for_scenario_2"
                  ELSE "elicitation_handler_for_scenario_24")

\* C12 witness: the scenario 24 executor has issued its tool call on a
\* session that carries the declining responder.
C12_Witness ==
    /\ client.scenario_id = 24
    /\ InTrace("call_tool:ambiguous_add")
    /\ client.session_callback = "elicitation_handler_for_scenario_24"

\* The session of a scenario other than 2 and 24 has no responder.
NoResponderElsewhere ==
    (InTrace("session") /\ client.scenario_id \notin {2, 24})
        => client.session_callback = None

\* C13 as stated: the scenario 2 responder answers every elicitation
\* request with accept and b = 20 whatever the prompt message, the
\* scenario 24 responder always declines, and no other scenario has a
\* responder.
C13_AcceptWhateverMessage ==
    /\ client_elicit.callback = "elicitation_handler_for_scenario_2"
          => client_elicit.result = ElicitResult("accept", [b |-> 20])
    /\ client_elicit.callback = "elicitation_handler_for_scenario_24"
          => client_elicit.result = ElicitResult("decline", <<>>)
    /\ client_elicit.callback # None =>
          client_elicit.callback = client.session_callback
    /\ NoResponderElsewhere

\* C13 amended: the responder depends on the scenario id only; the
\* scenario 2 responder answers accept with b = 20 when the prompt message
\* has a letter b (in either case) and declines otherwise, the scenario 24
\* responder always declines, and no other scenario has a responder.
C13_Responder ==
    /\ client_elicit.callback = "elicitation_handler_for_scenario_2" =>
          /\ client.scenario_id = 2
          /\ client_elicit.result =
                IF \E i \in 1..Len(client_elicit.message) :
                       client_elicit.message[i] \in {"b", "B"}
                THEN ElicitResult("accept", [b |-> 20])
                ELSE ElicitResult("decline", <<>>)
    /\ client_elicit.callback = "elicitation_handler_for_scenario_24" =>
          /\ client.scenario_id = 24
          /\ client_elicit.result = ElicitResult("decline", <<>>)
    /\ client_elicit.callback # None =>
          client_elicit.callback = client.session_callback
    /\ NoResponderElsewhere

\* C13 witness: the scenario 2 responder has declined a request whose
\* prompt message has no letter b.
C13_Witness ==
    /\ client_elicit.callback = "elicitation_handler_for_scenario_2"
    /\ client_elicit.result = ElicitResult("decline", <<>>)

\* C15: the client exits with 0 exactly when run_scenario reported a pass
\* and with 1 otherwise, in particular when the scenario id is not in the
\* catalog, the client id is not a participant, the scenario has no
\* executor, an assertion failed, the connection failed or the scenario
\* data is missing or malformed; the server exits with 1 when its name is
\* not in the catalog.
C15_ExitCodes ==
    /\ client.pc = "exited" =>
          /\ client.exit_code \in {ExitCode(0), ExitCode(1)}
          /\ client.exit_code = ExitCode(0) <=> client.result = "pass"
          /\ (\/ client.data # "ok"
              \/ client.scenario_id \notin CatalogIds
              \/ client.client_id \notin ScenarioClientIds(client.scenario_id)
              \/ client.scenario_id \notin ImplementedIds
              \/ client.server_desc \notin
                    {<<"stdio", "test-server">>, <<"sse", "http://localhost">>}
              \/ client.result = "fail")
                => client.exit_code = ExitCode(1)
    /\ client.pc # "exited" => client.exit_code = NoExit
    /\ (server_main.pc = "exited"
        /\ server_main.server_name \notin CatalogServers)
          => server_main.exit_code = ExitCode(1)

\* C15 witness: the client binary has exited with 0 after scenario 4
\* passed.
C15_Witness ==
    /\ client.entry = "main"
    /\ client.pc = "exited"
    /\ client.scenario_id = 4
    /\ client.result = "pass"
    /\ client.exit_code = ExitCode(0)

(***************************************************************************)
(* Claims about error codes and the timeout tool                           *)
(***************************************************************************)

\* The errors the handlers raise, by the kind the specification gives them.
ErrorsOfKind(kind) ==
    CASE kind = "UserDeclined" ->
            {AmbiguousAddOutcome(a, "decline", <<>>) : a \in ElicitAs}
      [] kind = "UserCancelled" ->
            {AmbiguousAddOutcome(a, "cancel", <<>>) : a \in ElicitAs}
      [] kind = "FeatureDisabled" -> {TrigOutcome(DefaultState, Float(0))}
      [] kind = "NotFound" -> {FileNotFound(path) : path \in Paths}
      [] kind = "InvalidParams" -> {AlwaysErrorOutcome, NotFoundResourceOutcome}
      [] kind = "EvaluationError" ->
            {Evaluate(e) : e \in {x \in Expressions : Evaluate(x).kind = "error"}}

\* The kind of the failure of a state store handler.
KindOfResponse(r) ==
    IF r.op \in {"cos", "sin"} THEN "FeatureDisabled" ELSE "NotFound"

\* UserDeclined and UserCancelled carry two different negative codes.
ElicitCodesDistinct ==
    \A d \in ErrorsOfKind("UserDeclined"), c \in ErrorsOfKind("UserCancelled") :
        d.code < 0 /\ c.code < 0 /\ d.code # c.code

\* C14 as stated: UserDeclined and UserCancelled carry two different
\* negative codes, and a failure of one of the kinds FeatureDisabled,
\* InvalidParams, NotFound, EvaluationError carries a code that no failure
\* of the other three kinds carries.
C14_DistinctCodes ==
    /\ ElicitCodesDistinct
    /\ resp.out.kind = "error" =>
          \A kind \in {"FeatureDisabled", "InvalidParams", "NotFound",
                       "EvaluationError"} \ {KindOfResponse(resp)} :
             \A e \in ErrorsOfKind(kind) : e.code # resp.out.code

\* C14 amended: UserDeclined and UserCancelled carry two different
\* negative codes that no other kind carries; a FeatureDisabled failure
\* carries -32603 as every EvaluationError does, a NotFound failure
\* carries -32602 as every InvalidParams failure does, and a failure
\* differs from every failure of another kind in its code or its message.
C14_CodesAndMessages ==
    /\ ElicitCodesDistinct
    /\ \A e \in ErrorsOfKind("EvaluationError") : e.code = -32603
    /\ \A e \in ErrorsOfKind("InvalidParams") : e.code = -32602
    /\ resp.out.kind = "error" =>
          /\ resp.out \in ErrorsOfKind(KindOfResponse(resp))
          /\ resp.out.code =
                (IF KindOfResponse(resp) = "FeatureDisabled" THEN -32603
                 ELSE -32602)
          /\ \A kind \in {"UserDeclined", "UserCancelled"} :
                \A e \in ErrorsOfKind(kind) : e.code # resp.out.code
          /\ \A kind \in {"UserDeclined", "UserCancelled", "FeatureDisabled",
                          "InvalidParams", "NotFound", "EvaluationError"}
                         \ {KindOfResponse(resp)} :
                \A e \in ErrorsOfKind(kind) :
                    e.code # resp.out.code \/ e.message # resp.out.message

\* C14 witness: delete_file of an absent path has failed with NotFound.
C14_Witness ==
    /\ resp.op = "delete_file"
    /\ resp.out = McpError(-32602, <<"File not found: ", "/new.txt">>)

\* C16: once the timeout task is cancelled, the step loop emits no further
\* progress event and the call never returns its completion message.
C16_TimeoutCancelled ==
    timeout_call.cancelled_at # <<>> =>
        /\ Len(timeout_events) = timeout_call.cancelled_at[1]
        /\ timeout_call.out = Pending
        /\ timeout_call.pc # "done"

\* C16 witness: the call was cancelled in the middle of its loop, after
\* some step events and before the last one.
C16_Witness ==
    /\ timeout_call.cancelled_at # <<>>
    /\ timeout_call.cancelled_at[1] > 0
    /\ timeout_call.cancelled_at[1] < 10 * timeout_call.duration
    /\ timeout_call.pc = "await_sleep"

\* The events of an uninterrupted call so far are the step events with
\* progress 0, 1, ... up to duration * 10 - 1, all with total duration *
\* 10, followed by at most one final event whose progress is the total;
\* a finished call has emitted all of them, the final one last, and has
\* returned the completion message.
TimeoutEventsInOrder ==
    timeout_call.cancelled_at = <<>> =>
        LET total == 10 * timeout_call.duration
            n == Len(timeout_events)
        IN /\ n <= total + 1
           /\ \A j \in 1..n :
                 /\ timeout_events[j].progress = j - 1
                 /\ timeout_events[j].total = total
                 /\ timeout_events[j].message = Text(<<"Completed">>)
                       <=> j = total + 1
           /\ timeout_call.pc = "done" =>
                 /\ n = total + 1
                 /\ timeout_call.out =
                       Ok(Text(<<"Completed after ">>
                               \o IntToStr(timeout_call.duration)
                               \o <<" seconds">>))
           /\ timeout_call.pc # "done" => timeout_call.out = Pending

\* C19: an uninterrupted timeout(duration) with duration >= 0 terminates:
\* it emits exactly duration * 10 step events with progress 0 ..
\* duration * 10 - 1 in increasing order, then one final event whose
\* progress equals the total, then returns the completion message.
C19_TimeoutCompletes ==
    /\ []TimeoutEventsInOrder
    /\ (timeout_call.pc = "started")
          ~> (timeout_call.pc = "done" \/ timeout_call.cancelled_at # <<>>)

\* C19 witness: the longest call has finished uninterrupted.
C19_Witness ==
    /\ timeout_call.pc = "done"
    /\ timeout_call.cancelled_at = <<>>
    /\ timeout_call.duration = MaxDuration
    /\ Len(timeout_events) = 10 * MaxDuration + 1

(***************************************************************************)
(* Claims about get_client_state                                           *)
(***************************************************************************)

\* C17: get-or-create never resets: the store's set of keys only grows; a
\* key enters it only by being referenced, with the default record (trig
\* disallowed, special number 42, the three seeded files); a reference to
\* a key already present returns its record as it is; and no step changes
\* or removes the record of a key other than the one it uses.
C17_GetOrCreate ==
    [][ /\ DOMAIN client_states \subseteq DOMAIN client_states'
        /\ \A id \in DOMAIN client_states' \ DOMAIN client_states :
              /\ id = store_ref'.client_id
              /\ store_ref'.op = "get_client_state"
              /\ client_states'[id] =
                    [trig_allowed |-> FALSE, special_number |-> 42,
                     files |-> [p \in {"/readme.txt", "/watched.txt",
                                       "/test/static.txt"} |->
                                 CASE p = "/readme.txt" -> "Initial readme content"
                                   [] p = "/watched.txt" -> "Initial watched content"
                                   [] p = "/test/static.txt" -> "Static test file content"]]
        /\ \A id \in DOMAIN client_states :
              (id # store_ref'.client_id \/ store_ref'.op = "get_client_state")
                 => client_states'[id] = client_states[id]
        /\ store_ref'.op = "get_client_state" =>
              store_ref'.record = client_states'[store_ref'.client_id]
      ]_vars

\* C17 witness: both keys are present with different records, and the
\* latest reference to a key that was written earlier returned its record
\* with the written values.
C17_Witness ==
    /\ DOMAIN client_states = StoreIds
    /\ client_states["default"] = DefaultState
    /\ store_ref.client_id = "client1"
    /\ store_ref.op = "get_client_state"
    /\ store_ref.record.special_number = 7
    /\ store_ref.record.trig_allowed
    /\ "/readme.txt" \notin DOMAIN store_ref.record.files

(***************************************************************************)
(* Claims about concurrent calls                                           *)
(***************************************************************************)

\* The handled calls of the batch in every order.
HandledOrders ==
    LET handled == {k \in DOMAIN batch : batch[k].done}
        n == Cardinality(handled)
    IN {order \in [1..n -> handled] :
           \A i, j \in 1..n : i # j => order[i] # order[j]}

\* The store and the outcomes after the calls of `order` ran one after
\* another, each to completion, from `states`.
RECURSIVE RunInOrder(_, _)
RunInOrder(states, order) ==
    IF order = <<>> THEN [states |-> states, outs |-> <<>>]
    ELSE LET eff == HandlerEffect(states, batch[Head(order)])
             rest == RunInOrder(eff.states, Tail(order))
         IN [states |-> rest.states, outs |-> <<eff.out>> \o rest.outs]

FilesOf(states) ==
    GetClientState(states, ClientIdOf("file_resource"))[ClientIdOf("file_resource")].files

\* Writing a path that exists replaces its content and adds no entry.
WriteReplaces ==
    (resp'.op = "write_file" /\ resp'.arg.path \in DOMAIN FilesOf(client_states))
        => /\ DOMAIN FilesOf(client_states') = DOMAIN FilesOf(client_states)
           /\ FilesOf(client_states')[resp'.arg.path] = resp'.arg.content
           /\ \A p \in DOMAIN FilesOf(client_states) \ {resp'.arg.path} :
                 FilesOf(client_states')[p] = FilesOf(client_states)[p]

\* C20 as stated: after any sequence of write_file and delete_file calls
\* of one identity, a read of path p returns the content of the most
\* recent write_file(p, c) not followed by a delete_file(p), and fails with
\* NotFound when there is none; writing an existing path replaces its
\* content without adding an entry.
C20_LastWriteWins ==
    [][ /\ resp'.op = "file_resource" =>
              LET last == last_write'[resp'.arg.path]
              IN resp'.out =
                    IF Len(last) = 2 THEN Ok(Text(<<last[2]>>))
                    ELSE McpError(-32602, <<"File not found: ", resp'.arg.path>>)
        /\ WriteReplaces
      ]_vars

\* C20 amended: as stated, except that a path the identity has neither
\* written nor deleted reads as its pre-seeded content when it is one of
\* the pre-seeded paths, and fails with NotFound only otherwise.
C20_LastWriteOrSeed ==
    [][ /\ resp'.op = "file_resource" =>
              LET p == resp'.arg.path
                  last == last_write'[p]
              IN resp'.out =
                    IF Len(last) = 2 THEN Ok(Text(<<last[2]>>))
                    ELSE IF Len(last) = 0 /\ p = "/readme.txt"
                         THEN Ok(Text(<<"Initial readme content">>))
                    ELSE IF Len(last) = 0 /\ p = "/watched.txt"
                         THEN Ok(Text(<<"Initial watched content">>))
                    ELSE IF Len(last) = 0 /\ p = "/test/static.txt"
                         THEN Ok(Text(<<"Static test file content">>))
                    ELSE McpError(-32602, <<"File not found: ", p>>)
        /\ WriteReplaces
      ]_vars

\* C20 witness: a read of the pre-seeded /readme.txt returned the content
\* a write_file put in place of the seed.
C20_Witness ==
    /\ resp.op = "file_resource"
    /\ resp.arg.path = "/readme.txt"
    /\ last_write["/readme.txt"] = <<"written", "rewritten">>
    /\ resp.out = Ok(Text(<<"rewritten">>))

(***************************************************************************)
(* Claims about frame effects and failing calls                            *)
(***************************************************************************)

\* C21: whatever write_file and delete_file calls came before, those that
\* overwrite or delete the "/test/static.txt" entry of the file map
\* included, a read of the static resource returns the fixed content
\* "Static test file content" and does not fail.
C21_StaticResource ==
    resp.op = "static_test_file" =>
        resp.out = [kind |-> "ok", value |-> Text(<<"Static test file content">>)]

\* C21 witness: the static resource was read after the "/test/static.txt"
\* entry of the file map had been deleted.
C21_Witness ==
    /\ resp.op = "static_test_file"
    /\ last_write["/test/static.txt"] = <<"deleted">>
    /\ "/test/static.txt" \notin DOMAIN FilesOf(client_states)

\* What the scenario prescribes for the declined call: it failed with
\* UserDeclined and a message containing "declined", either raised as an
\* McpError or flattened by the session into an error result whose first
\* text contains "declined".
FailedWithUserDeclined(response) ==
    \/ /\ response.kind = "mcp_error"
       /\ response.code = UserDeclinedCode
       /\ Contains(Lower(response.message), DeclinedWord)
    \/ /\ response.kind = "result"
       /\ response.isError
       /\ Len(response.content) > 0
       /\ Contains(Lower(response.content[1]), DeclinedWord)

\* C22: the scenario 24 executor reports pass only when the ambiguous_add
\* call failed with UserDeclined and an error message containing "declined";
\* a successful result, an error of another kind or an error without a
\* "declined" message is reported as fail.
C22_PassOnlyOnDeclined ==
    (client.scenario_id = 24 /\ client.result = "pass")
        => FailedWithUserDeclined(client.response)

\* C26: in scenario 3 a participant whose client id is neither "client1"
\* nor "client2" gets a pass result from the executor although no
\* set_trig_allowed or list_tools call was issued and no assertion was
\* evaluated: once the executor runs, the session carries no request, the
\* client never waits for an answer, and the run returns pass.
C26_OtherParticipantPasses ==
    ( /\ client.scenario_id = 3
      /\ client.client_id \notin {"client1", "client2"}
      /\ client.step >= 1 )
        => /\ \A i \in 1..Len(client_trace) : client_trace[i] \in SetupEvents
           /\ client.pc # "rs_awaiting"
           /\ client.pc = "rs_returned" => client.result = "pass"

\* C26 witness: client3, declared a participant of scenario 3 by the
\* catalog, was returned pass after the session was initialized.
C26_Witness ==
    /\ client.scenario_id = 3
    /\ client.client_id = "client3"
    /\ client.client_id \in ScenarioClientIds(3)
    /\ client.pc = "rs_returned"
    /\ client.result = "pass"
    /\ InTrace("initialize")

\* The record of identity id before a step, taken as created when the
\* step's handler is the first to reference it.
RecordBefore(id) ==
    IF id \in DOMAIN client_states THEN client_states[id] ELSE DefaultState

\* The entries of two file maps agree everywhere but at path.
SameFilesBut(old, new, path) ==
    /\ DOMAIN old \ {path} = DOMAIN new \ {path}
    /\ \A p \in DOMAIN old \ {path} : new[p] = old[p]

C24_FailureKeepsState ==
    [][ resp'.out.kind = "error" =>
          /\ resp'.op \in {"delete_file", "cos", "sin", "file_resource"}
          /\ DOMAIN client_states \subseteq DOMAIN client_states'
          /\ \A id \in DOMAIN client_states' :
                client_states'[id] = RecordBefore(id) ]_vars

\* C24 witness: delete_file of the absent "/new.txt" failed with "File not
\* found" after "/readme.txt" had been rewritten, and the rewritten entry
\* is still there.
C24_Witness ==
    /\ resp.op = "delete_file"
    /\ resp.arg.path = "/new.txt"
    /\ resp.out.kind = "error"
    /\ \E id \in DOMAIN client_states :
          /\ "/new.txt" \notin DOMAIN client_states[id].files
          /\ client_states[id].files["/readme.txt"] = "rewritten"

\* C25: when eval_with_sampling fails with its evaluation error the 0%
\* progress event has already been emitted and no 100% event is emitted for
\* that call: a failed call has exactly the 0% event, and a call with a
\* 100% event has evaluated to a value and never ends with an error.
C25_NoCompletionOnError ==
    \A k \in 1..NumEvalCalls :
        /\ (eval_calls[k].pc = "done" /\ eval_calls[k].out.kind = "error")
              => ProgressOf(k) = << <<0, 100>> >>
        /\ (\E i \in 1..Len(progress_events) :
                /\ progress_events[i].call = k
                /\ progress_events[i].progress = 100)
              => /\ eval_calls[k].pc \in {"evaluated", "done"}
                 /\ Evaluate(eval_calls[k].expression).kind = "ok"
                 /\ eval_calls[k].pc = "done" => eval_calls[k].out.kind = "ok"

\* C25 witness: the call of "1 / 0" has failed with "Cannot evaluate
\* expression" and the only progress event of the call is its 0% event,
\* while another call has emitted its 100% event.
C25_Witness ==
    \E k, j \in 1..NumEvalCalls :
        /\ eval_calls[k].pc = "done"
        /\ eval_calls[k].expression = "1 / 0"
        /\ eval_calls[k].out.kind = "error"
        /\ eval_calls[k].out.code = InternalErrorCode
        /\ ProgressOf(k) = << <<0, 100>> >>
        /\ <<100, 100>> \in {ProgressOf(j)[i] : i \in 1..Len(ProgressOf(j))}

====
